---- MODULE Spec2Model ----
(***************************************************************************)
(* sjtu::priority_queue<T, Compare> (src/src/priority_queue.hpp): a        *)
(* leftist heap over heap-allocated nodes.  T is modelled by small         *)
(* integers, Compare by std::less<T> whose every invocation may throw,     *)
(* and T's copy constructor may throw as well.  meld is modelled frame by  *)
(* frame: the descent (one comparison per frame) and the unwinding (the    *)
(* writes of one frame) are separate steps, so that an exception can       *)
(* leave the recursion at each comparison.                                 *)
(***************************************************************************)
EXTENDS Integers, Sequences, FiniteSets

\* Size of the node pool the model allocates from.
MaxNodes == 4
\* The element type T is 1..MaxVal.
MaxVal == 2

\* The priority_queue objects of the model (merge involves at most two).
Queues == {"a", "b"}
Values == 1..MaxVal
nullptr == 0

VARIABLES
    node,     \* the heap memory: NodeIds -> Node
    live,     \* the nodes allocated with new and not yet deleted
    exists,   \* which priority_queue objects are constructed
    root,     \* root[q]: the member Node *root of q (nullptr when empty)
    cnt,      \* cnt[q]: the member size_t cnt of q
    pc,       \* position of the running public operation
    op,       \* the running operation: name, this, other, its local Node*
    call,     \* arguments <<a, b>> of the meld frame being entered
    stack,    \* meld frames waiting for their recursive call (innermost first)
    ret,      \* value returned by the meld frame that returned last
    outcome,  \* how the operation left: "ok" or the exception it threw
    threw,    \* what threw inside the operation: "none", "comp" or "copy"
    result,   \* the value top() returned
    ncmp,     \* comparator invocations made by the running operation
    nwr,      \* meld frames that have written node fields in the running operation
    pre       \* node, root and cnt as they were when the operation was called

vars == <<node, live, exists, root, cnt, pc, op, call, stack, ret, outcome,
          threw, result, ncmp, nwr, pre>>

\* The addresses of the pool: the memory holds one (possibly blank) Node at
\* each of them.
NodeIds == DOMAIN node

\* struct Node after Node(const T &v): val(v), l(nullptr), r(nullptr), npl(1)
Node(v) == [val |-> v, l |-> nullptr, r |-> nullptr, npl |-> 1]

\* Memory that holds no node (never allocated, or deleted).
Blank == [val |-> 0, l |-> nullptr, r |-> nullptr, npl |-> 0]

\* Compare()(x, y) for the default Compare = std::less<T>.
comp(x, y) == x < y

\* get_npl(x) on the memory h.
get_npl(h, x) == IF x = nullptr THEN 0 ELSE h[x].npl

\* operator new: the lowest free address of the pool.
Alloc == CHOOSE n \in NodeIds \ live : \A m \in NodeIds \ live : n <= m

\* size() and empty()
size(q) == cnt[q]
empty(q) == cnt[q] = 0

\* The memory as one value, for the recursive helpers clone and clear.
Mem == [node |-> node, live |-> live]

\* clear(x) on the memory m: clear(x->l); clear(x->r); delete x.
RECURSIVE clear(_, _)
clear(m, x) ==
    IF x = nullptr THEN m
    ELSE LET m1 == clear(m, m.node[x].l)
             m2 == clear(m1, m1.node[x].r)
         IN  [node |-> [m2.node EXCEPT ![x] = Blank], live |-> m2.live \ {x}]

\* Faulty variant of clone: the pointer is copied, not the tree.
cloneShallow(m, x, k) == [m |-> m, t |-> x, ok |-> TRUE, k |-> k]

\* clone(x) on the memory m, where only the next k evaluations of
\* new Node(x->val) succeed and the one after them throws.  The result is
\* the memory, the returned pointer t, whether clone returned (ok) and what
\* is left of k.  Nodes built before a throw stay allocated.
RECURSIVE clone(_, _, _)
clone(m, x, k) ==
    IF x = nullptr THEN [m |-> m, t |-> nullptr, ok |-> TRUE, k |-> k]
    ELSE IF k = 0 THEN [m |-> m, t |-> nullptr, ok |-> FALSE, k |-> 0]
    ELSE LET t == CHOOSE n \in NodeIds \ m.live :
                      \A n2 \in NodeIds \ m.live : n <= n2
             m1 == [node |-> [m.node EXCEPT
                                 ![t] = [Node(m.node[x].val) EXCEPT
                                            !.npl = m.node[x].npl]],
                    live |-> m.live \cup {t}]
             cl == clone(m1, m.node[x].l, k - 1)
             m2 == [cl.m EXCEPT !.node[t].l = cl.t]
             cr == clone(m2, m.node[x].r, cl.k)
             m3 == [cr.m EXCEPT !.node[t].r = cr.t]
         IN  IF ~cl.ok THEN [m |-> cl.m, t |-> nullptr, ok |-> FALSE, k |-> 0]
             ELSE IF ~cr.ok THEN [m |-> cr.m, t |-> nullptr, ok |-> FALSE, k |-> 0]
             ELSE [m |-> m3, t |-> t, ok |-> TRUE, k |-> cr.k]

\* Number of nodes of the tree at x in the memory h (what a clone allocates).
RECURSIVE TreeSize(_, _)
TreeSize(h, x) ==
    IF x = nullptr THEN 0 ELSE 1 + TreeSize(h, h[x].l) + TreeSize(h, h[x].r)

NoOp == [name |-> "none", q |-> "a", other |-> "a", n |-> nullptr, e |-> 0]
NoPre == [node |-> <<>>, live |-> {}, root |-> <<>>, cnt |-> <<>>]
Snapshot == [node |-> node, live |-> live, root |-> root, cnt |-> cnt]

Init ==
    /\ node = [n \in 1..MaxNodes |-> Blank]
    /\ live = {}
    /\ exists = [q \in Queues |-> FALSE]
    /\ root = [q \in Queues |-> nullptr]
    /\ cnt = [q \in Queues |-> 0]
    /\ pc = "idle"
    /\ op = NoOp
    /\ call = <<nullptr, nullptr>>
    /\ stack = <<>>
    /\ ret = nullptr
    /\ outcome = "none"
    /\ threw = "none"
    /\ result = 0
    /\ ncmp = 0
    /\ nwr = 0
    /\ pre = NoPre

\* An operation that leaves at once (no meld): position "done", state as given.
Leave(name, q, o, how, res) ==
    /\ pc' = "done"
    /\ op' = [name |-> name, q |-> q, other |-> o, n |-> nullptr, e |-> 0]
    /\ outcome' = how
    /\ threw' = IF how = "value_exception" THEN "copy" ELSE "none"
    /\ result' = res
    /\ pre' = Snapshot
    /\ UNCHANGED <<call, stack, ret, ncmp, nwr>>

\* priority_queue(): root(nullptr), cnt(0)
DefaultConstruct(q) ==
    /\ pc = "idle"
    /\ ~exists[q]
    /\ exists' = [exists EXCEPT ![q] = TRUE]
    /\ root' = [root EXCEPT ![q] = nullptr]
    /\ cnt' = [cnt EXCEPT ![q] = 0]
    /\ Leave("construct", q, q, "ok", 0)
    /\ UNCHANGED <<node, live>>

(***************************************************************************)
(* meld(a, b), one step per frame.                                         *)
(***************************************************************************)

\* if (!a) return b; if (!b) return a;
MeldReturnOperand ==
    /\ pc = "meld"
    /\ call[1] = nullptr \/ call[2] = nullptr
    /\ ret' = IF call[1] = nullptr THEN call[2] ELSE call[1]
    /\ pc' = "unwind"
    /\ UNCHANGED <<node, live, exists, root, cnt, op, call, stack, outcome, threw,
                   result, ncmp, nwr, pre>>

\* Faulty variant of MeldCompare: the frame writes a->r = b before the
\* recursive call returns (the write the comment of meld rules out).
MeldCompareEager ==
    /\ pc = "meld"
    /\ call[1] # nullptr /\ call[2] # nullptr
    /\ LET c == comp(node[call[1]].val, node[call[2]].val)
           a == IF c THEN call[2] ELSE call[1]
           b == IF c THEN call[1] ELSE call[2]
       IN  /\ stack' = <<[a |-> a, b |-> b]>> \o stack
           /\ call' = <<node[a].r, b>>
           /\ node' = [node EXCEPT ![a].r = b]
    /\ ncmp' = ncmp + 1
    /\ UNCHANGED <<live, exists, root, cnt, pc, op, ret, outcome, threw,
                   result, nwr, pre>>

\* Faulty variant of MeldCompare: a and b are never swapped.
MeldCompareNoSwap ==
    /\ pc = "meld"
    /\ call[1] # nullptr /\ call[2] # nullptr
    /\ stack' = <<[a |-> call[1], b |-> call[2]]>> \o stack
    /\ call' = <<node[call[1]].r, call[2]>>
    /\ ncmp' = ncmp + 1
    /\ UNCHANGED <<node, live, exists, root, cnt, pc, op, ret, outcome, threw,
                   result, nwr, pre>>

\* Faulty variant of MeldCompare: the comparator is called as
\* comp(b->val, a->val).
MeldCompareFlipped ==
    /\ pc = "meld"
    /\ call[1] # nullptr /\ call[2] # nullptr
    /\ LET c == comp(node[call[2]].val, node[call[1]].val)
           a == IF c THEN call[2] ELSE call[1]
           b == IF c THEN call[1] ELSE call[2]
       IN  /\ stack' = <<[a |-> a, b |-> b]>> \o stack
           /\ call' = <<node[a].r, b>>
    /\ ncmp' = ncmp + 1
    /\ UNCHANGED <<node, live, exists, root, cnt, pc, op, ret, outcome, threw,
                   result, nwr, pre>>

\* Faulty variant of MeldCompare: a and b are swapped unless
\* comp(b->val, a->val), so that b wins a tie.
MeldCompareTieSwap ==
    /\ pc = "meld"
    /\ call[1] # nullptr /\ call[2] # nullptr
    /\ LET c == ~comp(node[call[2]].val, node[call[1]].val)
           a == IF c THEN call[2] ELSE call[1]
           b == IF c THEN call[1] ELSE call[2]
       IN  /\ stack' = <<[a |-> a, b |-> b]>> \o stack
           /\ call' = <<node[a].r, b>>
    /\ ncmp' = ncmp + 1
    /\ UNCHANGED <<node, live, exists, root, cnt, pc, op, ret, outcome, threw,
                   result, nwr, pre>>

\* Faulty variant of MeldCompare: the recursion descends into a->l.
MeldCompareLeft ==
    /\ pc = "meld"
    /\ call[1] # nullptr /\ call[2] # nullptr
    /\ LET c == comp(node[call[1]].val, node[call[2]].val)
           a == IF c THEN call[2] ELSE call[1]
           b == IF c THEN call[1] ELSE call[2]
       IN  /\ stack' = <<[a |-> a, b |-> b]>> \o stack
           /\ call' = <<node[a].l, b>>
    /\ ncmp' = ncmp + 1
    /\ UNCHANGED <<node, live, exists, root, cnt, pc, op, ret, outcome, threw,
                   result, nwr, pre>>

\* comp(a->val, b->val) returns: swap a and b if it is true, then enter
\* meld(a->r, b).  No node is written in this frame yet.
MeldCompare ==
    /\ pc = "meld"
    /\ call[1] # nullptr /\ call[2] # nullptr
    /\ LET c == comp(node[call[1]].val, node[call[2]].val)
           a == IF c THEN call[2] ELSE call[1]
           b == IF c THEN call[1] ELSE call[2]
       IN  /\ stack' = <<[a |-> a, b |-> b]>> \o stack
           /\ call' = <<node[a].r, b>>
    /\ ncmp' = ncmp + 1
    /\ UNCHANGED <<node, live, exists, root, cnt, pc, op, ret, outcome, threw,
                   result, nwr, pre>>

\* Faulty variant of MeldCompareThrows: the comparator is invoked (and may
\* throw) before the tests of a and b against nullptr.
MeldCompareThrowsEarly ==
    /\ pc = "meld"
    /\ ncmp' = ncmp + 1
    /\ stack' = <<>>
    /\ pc' = "catch"
    /\ threw' = "comp"
    /\ UNCHANGED <<node, live, exists, root, cnt, op, call, ret, outcome,
                   result, nwr, pre>>

\* comp(a->val, b->val) throws: the exception leaves every meld frame (none
\* has a handler) and reaches the catch (...) of the public operation.
MeldCompareThrows ==
    /\ pc = "meld"
    /\ call[1] # nullptr /\ call[2] # nullptr
    /\ ncmp' = ncmp + 1
    /\ stack' = <<>>
    /\ pc' = "catch"
    /\ threw' = "comp"
    /\ UNCHANGED <<node, live, exists, root, cnt, op, call, ret, outcome,
                   result, nwr, pre>>

\* Faulty variant of MeldWrite: the children are never swapped.
MeldWriteNoSwap ==
    /\ pc = "unwind"
    /\ stack # <<>>
    /\ LET a == Head(stack).a
           h1 == [node EXCEPT ![a].r = ret]
       IN  /\ node' = [h1 EXCEPT ![a].npl = get_npl(h1, h1[a].r) + 1]
           /\ ret' = a
    /\ stack' = Tail(stack)
    /\ nwr' = nwr + 1
    /\ UNCHANGED <<live, exists, root, cnt, pc, op, call, outcome, threw, result,
                   ncmp, pre>>

\* The recursive call returned newRight: a->r = newRight; swap the children
\* if get_npl(a->l) < get_npl(a->r); a->npl = get_npl(a->r) + 1; return a.
MeldWrite ==
    /\ pc = "unwind"
    /\ stack # <<>>
    /\ LET a == Head(stack).a
           newRight == ret
           h1 == [node EXCEPT ![a].r = newRight]
           h2 == IF get_npl(h1, h1[a].l) < get_npl(h1, h1[a].r)
                 THEN [h1 EXCEPT ![a].l = h1[a].r, ![a].r = h1[a].l]
                 ELSE h1
       IN  /\ node' = [h2 EXCEPT ![a].npl = get_npl(h2, h2[a].r) + 1]
           /\ ret' = a
    /\ stack' = Tail(stack)
    /\ nwr' = nwr + 1
    /\ UNCHANGED <<live, exists, root, cnt, pc, op, call, outcome, threw, result,
                   ncmp, pre>>

(***************************************************************************)
(* push                                                                    *)
(***************************************************************************)

\* Node *node = new Node(e); then root = meld(root, node) is entered.
Push(q, e) ==
    /\ pc = "idle"
    /\ exists[q]
    /\ NodeIds \ live # {}
    /\ LET n == Alloc
       IN  /\ node' = [node EXCEPT ![n] = Node(e)]
           /\ live' = live \cup {n}
           /\ op' = [name |-> "push", q |-> q, other |-> q, n |-> n, e |-> e]
           /\ call' = <<root[q], n>>
    /\ pc' = "meld"
    /\ stack' = <<>>
    /\ pre' = Snapshot
    /\ UNCHANGED <<exists, root, cnt, ret, outcome, threw, result, ncmp, nwr>>

\* new Node(e): the copy val(v) throws.  The new-expression releases the
\* memory; the statement is outside the try block, so the exception of T
\* leaves push as it is.
PushCopyThrows(q, e) ==
    /\ pc = "idle"
    /\ exists[q]
    /\ pc' = "done"
    /\ op' = [name |-> "push", q |-> q, other |-> q, n |-> nullptr, e |-> e]
    /\ outcome' = "value_exception"
    /\ threw' = "copy"
    /\ pre' = Snapshot
    /\ UNCHANGED <<node, live, exists, root, cnt, call, stack, ret, result,
                   ncmp, nwr>>

\* Faulty variant of PushCommit: ++cnt is missing.
PushCommitNoCount ==
    /\ pc = "unwind"
    /\ stack = <<>>
    /\ op.name = "push"
    /\ root' = [root EXCEPT ![op.q] = ret]
    /\ pc' = "done"
    /\ outcome' = "ok"
    /\ UNCHANGED <<threw, node, live, exists, cnt, op, call, stack, ret, result,
                   ncmp, nwr, pre>>

\* meld returned: root = <its value>; ++cnt;
PushCommit ==
    /\ pc = "unwind"
    /\ stack = <<>>
    /\ op.name = "push"
    /\ root' = [root EXCEPT ![op.q] = ret]
    /\ cnt' = [cnt EXCEPT ![op.q] = @ + 1]
    /\ pc' = "done"
    /\ outcome' = "ok"
    /\ UNCHANGED <<threw, node, live, exists, op, call, stack, ret, result, ncmp,
                   nwr, pre>>

\* Faulty variant of PushCatch: delete node is missing.
PushCatchNoDelete ==
    /\ pc = "catch"
    /\ op.name = "push"
    /\ pc' = "done"
    /\ outcome' = "runtime_error"
    /\ UNCHANGED <<threw, node, live, exists, root, cnt, op, call, stack, ret,
                   result, ncmp, nwr, pre>>

\* catch (...) { delete node; throw runtime_error(); }
PushCatch ==
    /\ pc = "catch"
    /\ op.name = "push"
    /\ node' = [node EXCEPT ![op.n] = Blank]
    /\ live' = live \ {op.n}
    /\ pc' = "done"
    /\ outcome' = "runtime_error"
    /\ UNCHANGED <<threw, exists, root, cnt, op, call, stack, ret, result, ncmp,
                   nwr, pre>>

(***************************************************************************)
(* top and pop                                                             *)
(***************************************************************************)

\* top() on a non-empty queue: return root->val;
Top(q) ==
    /\ pc = "idle"
    /\ exists[q]
    /\ ~empty(q)
    /\ Leave("top", q, q, "ok", node[root[q]].val)
    /\ UNCHANGED <<node, live, exists, root, cnt>>

\* top(): if (empty()) throw container_is_empty();
TopEmpty(q) ==
    /\ pc = "idle"
    /\ exists[q]
    /\ empty(q)
    /\ Leave("top", q, q, "container_is_empty", 0)
    /\ UNCHANGED <<node, live, exists, root, cnt>>

\* Faulty variant of PopEmpty: the check of empty() is missing and pop
\* returns.
PopEmptyNoCheck(q) ==
    /\ pc = "idle"
    /\ exists[q]
    /\ empty(q)
    /\ Leave("pop", q, q, "ok", 0)
    /\ UNCHANGED <<node, live, exists, root, cnt>>

\* pop(): if (empty()) throw container_is_empty();
PopEmpty(q) ==
    /\ pc = "idle"
    /\ exists[q]
    /\ empty(q)
    /\ Leave("pop", q, q, "container_is_empty", 0)
    /\ UNCHANGED <<node, live, exists, root, cnt>>

\* pop(): Node *old = root; then root = meld(root->l, root->r) is entered.
Pop(q) ==
    /\ pc = "idle"
    /\ exists[q]
    /\ ~empty(q)
    /\ op' = [name |-> "pop", q |-> q, other |-> q, n |-> root[q], e |-> 0]
    /\ call' = <<node[root[q]].l, node[root[q]].r>>
    /\ pc' = "meld"
    /\ stack' = <<>>
    /\ pre' = Snapshot
    /\ UNCHANGED <<node, live, exists, root, cnt, ret, outcome, threw, result, ncmp,
                   nwr>>

\* Faulty variant of PopCommit: --cnt is missing.
PopCommitNoCount ==
    /\ pc = "unwind"
    /\ stack = <<>>
    /\ op.name = "pop"
    /\ root' = [root EXCEPT ![op.q] = ret]
    /\ node' = [node EXCEPT ![op.n] = Blank]
    /\ live' = live \ {op.n}
    /\ pc' = "done"
    /\ outcome' = "ok"
    /\ UNCHANGED <<threw, exists, cnt, op, call, stack, ret, result, ncmp, nwr,
                   pre>>

\* meld returned: root = <its value>; --cnt; delete old;
PopCommit ==
    /\ pc = "unwind"
    /\ stack = <<>>
    /\ op.name = "pop"
    /\ root' = [root EXCEPT ![op.q] = ret]
    /\ cnt' = [cnt EXCEPT ![op.q] = @ - 1]
    /\ node' = [node EXCEPT ![op.n] = Blank]
    /\ live' = live \ {op.n}
    /\ pc' = "done"
    /\ outcome' = "ok"
    /\ UNCHANGED <<threw, exists, op, call, stack, ret, result, ncmp, nwr, pre>>

\* Faulty variant of PopCatch: the handler rethrows what it caught.
PopCatchRethrow ==
    /\ pc = "catch"
    /\ op.name = "pop"
    /\ root' = [root EXCEPT ![op.q] = op.n]
    /\ pc' = "done"
    /\ outcome' = "compare_exception"
    /\ UNCHANGED <<threw, node, live, exists, cnt, op, call, stack, ret, result,
                   ncmp, nwr, pre>>

\* catch (...) { root = old; throw runtime_error(); }
PopCatch ==
    /\ pc = "catch"
    /\ op.name = "pop"
    /\ root' = [root EXCEPT ![op.q] = op.n]
    /\ pc' = "done"
    /\ outcome' = "runtime_error"
    /\ UNCHANGED <<threw, node, live, exists, cnt, op, call, stack, ret, result,
                   ncmp, nwr, pre>>

(***************************************************************************)
(* merge                                                                   *)
(***************************************************************************)

\* merge(other): if (this == &other || other.empty()) return;
MergeNoop(q, o) ==
    /\ pc = "idle"
    /\ exists[q] /\ exists[o]
    /\ q = o \/ empty(o)
    /\ Leave("merge", q, o, "ok", 0)
    /\ UNCHANGED <<node, live, exists, root, cnt>>

\* Faulty variant of Merge: the test this == &other is missing.
MergeNoSelfCheck(q, o) ==
    /\ pc = "idle"
    /\ exists[q] /\ exists[o]
    /\ ~empty(o)
    /\ op' = [name |-> "merge", q |-> q, other |-> o, n |-> nullptr, e |-> 0]
    /\ call' = <<root[q], root[o]>>
    /\ pc' = "meld"
    /\ stack' = <<>>
    /\ pre' = Snapshot
    /\ UNCHANGED <<node, live, exists, root, cnt, ret, outcome, threw, result, ncmp,
                   nwr>>

\* merge(other): root = meld(root, other.root) is entered.
Merge(q, o) ==
    /\ pc = "idle"
    /\ exists[q] /\ exists[o]
    /\ ~(q = o \/ empty(o))
    /\ op' = [name |-> "merge", q |-> q, other |-> o, n |-> nullptr, e |-> 0]
    /\ call' = <<root[q], root[o]>>
    /\ pc' = "meld"
    /\ stack' = <<>>
    /\ pre' = Snapshot
    /\ UNCHANGED <<node, live, exists, root, cnt, ret, outcome, threw, result, ncmp,
                   nwr>>

\* Faulty variant of MergeCommit: other is not emptied.
MergeCommitKeepOther ==
    /\ pc = "unwind"
    /\ stack = <<>>
    /\ op.name = "merge"
    /\ root' = [root EXCEPT ![op.q] = ret]
    /\ cnt' = [cnt EXCEPT ![op.q] = @ + cnt[op.other]]
    /\ pc' = "done"
    /\ outcome' = "ok"
    /\ UNCHANGED <<threw, node, live, exists, op, call, stack, ret, result, ncmp,
                   nwr, pre>>

\* meld returned: root = <its value>; cnt += other.cnt;
\* other.root = nullptr; other.cnt = 0;
MergeCommit ==
    /\ pc = "unwind"
    /\ stack = <<>>
    /\ op.name = "merge"
    /\ root' = [root EXCEPT ![op.q] = ret, ![op.other] = nullptr]
    /\ cnt' = [cnt EXCEPT ![op.q] = @ + cnt[op.other], ![op.other] = 0]
    /\ pc' = "done"
    /\ outcome' = "ok"
    /\ UNCHANGED <<threw, node, live, exists, op, call, stack, ret, result, ncmp,
                   nwr, pre>>

\* catch (...) { throw runtime_error(); }
MergeCatch ==
    /\ pc = "catch"
    /\ op.name = "merge"
    /\ pc' = "done"
    /\ outcome' = "runtime_error"
    /\ UNCHANGED <<threw, node, live, exists, root, cnt, op, call, stack, ret,
                   result, ncmp, nwr, pre>>

(***************************************************************************)
(* copy construction, copy assignment, destruction                        *)
(***************************************************************************)

\* priority_queue(const priority_queue &other):
\*     root(clone(other.root)), cnt(other.cnt)
CopyConstruct(q, o) ==
    /\ pc = "idle"
    /\ ~exists[q] /\ exists[o]
    /\ TreeSize(node, root[o]) <= Cardinality(NodeIds \ live)
    /\ LET c == clone(Mem, root[o], MaxNodes)
       IN  /\ node' = c.m.node
           /\ live' = c.m.live
           /\ root' = [root EXCEPT ![q] = c.t]
    /\ cnt' = [cnt EXCEPT ![q] = cnt[o]]
    /\ exists' = [exists EXCEPT ![q] = TRUE]
    /\ Leave("copy_construct", q, o, "ok", 0)

\* The copy constructor when the (k+1)-th new Node(x->val) of clone throws:
\* no object is constructed, the k nodes built so far stay allocated.
CopyConstructThrows(q, o, k) ==
    /\ pc = "idle"
    /\ ~exists[q] /\ exists[o]
    /\ k < TreeSize(node, root[o])
    /\ k <= Cardinality(NodeIds \ live)
    /\ LET c == clone(Mem, root[o], k)
       IN  /\ node' = c.m.node
           /\ live' = c.m.live
    /\ Leave("copy_construct", q, o, "value_exception", 0)
    /\ UNCHANGED <<exists, root, cnt>>

\* operator=: if (this == &other) return *this;
CopyAssignSelf(q) ==
    /\ pc = "idle"
    /\ exists[q]
    /\ Leave("copy_assign", q, q, "ok", 0)
    /\ UNCHANGED <<node, live, exists, root, cnt>>

\* operator=: Node *newRoot = clone(other.root); clear(root);
\* root = newRoot; cnt = other.cnt;
CopyAssign(q, o) ==
    /\ pc = "idle"
    /\ exists[q] /\ exists[o]
    /\ q # o
    /\ TreeSize(node, root[o]) <= Cardinality(NodeIds \ live)
    /\ LET c == clone(Mem, root[o], MaxNodes)
           m == clear(c.m, root[q])
       IN  /\ node' = m.node
           /\ live' = m.live
           /\ root' = [root EXCEPT ![q] = c.t]
    /\ cnt' = [cnt EXCEPT ![q] = cnt[o]]
    /\ Leave("copy_assign", q, o, "ok", 0)
    /\ UNCHANGED exists

\* Faulty variant of CopyAssignThrows: clear(root) is called before clone.
CopyAssignThrowsClearFirst(q, o, k) ==
    /\ pc = "idle"
    /\ exists[q] /\ exists[o]
    /\ q # o
    /\ k < TreeSize(node, root[o])
    /\ k <= Cardinality(NodeIds \ live)
    /\ LET c == clone(clear(Mem, root[q]), root[o], k)
       IN  /\ node' = c.m.node
           /\ live' = c.m.live
    /\ Leave("copy_assign", q, o, "value_exception", 0)
    /\ UNCHANGED <<exists, root, cnt>>

\* operator= when the (k+1)-th new Node(x->val) of clone throws: the
\* exception leaves operator= before clear(root).
CopyAssignThrows(q, o, k) ==
    /\ pc = "idle"
    /\ exists[q] /\ exists[o]
    /\ q # o
    /\ k < TreeSize(node, root[o])
    /\ k <= Cardinality(NodeIds \ live)
    /\ LET c == clone(Mem, root[o], k)
       IN  /\ node' = c.m.node
           /\ live' = c.m.live
    /\ Leave("copy_assign", q, o, "value_exception", 0)
    /\ UNCHANGED <<exists, root, cnt>>

\* ~priority_queue() { clear(root); root = nullptr; cnt = 0; }
Destroy(q) ==
    /\ pc = "idle"
    /\ exists[q]
    /\ LET m == clear(Mem, root[q])
       IN  /\ node' = m.node
           /\ live' = m.live
    /\ root' = [root EXCEPT ![q] = nullptr]
    /\ cnt' = [cnt EXCEPT ![q] = 0]
    /\ exists' = [exists EXCEPT ![q] = FALSE]
    /\ Leave("destroy", q, q, "ok", 0)

(***************************************************************************)
(* Addresses.  The program never orders or prints a Node*: it only tests   *)
(* pointers against nullptr and follows them.  Its behaviour is therefore  *)
(* the same under any renaming of the addresses, and between two public    *)
(* operations the model renames them into one fixed order: the nodes of    *)
(* queue "a" in preorder, then those of "b", then the allocated nodes no   *)
(* queue reaches.  Within an operation addresses never change.             *)
(***************************************************************************)

RECURSIVE Preorder(_, _)
Preorder(h, x) ==
    IF x = nullptr THEN <<>>
    ELSE <<x>> \o Preorder(h, h[x].l) \o Preorder(h, h[x].r)

RECURSIVE Ascending(_)
Ascending(S) ==
    IF S = {} THEN <<>>
    ELSE LET m == CHOOSE x \in S : \A y \in S : x <= y
         IN  <<m>> \o Ascending(S \ {m})

Renamed ==
    LET reach == Preorder(node, root["a"]) \o Preorder(node, root["b"])
        seq == reach \o Ascending(live \ {reach[i] : i \in 1..Len(reach)})
        NewId(n) == IF n = nullptr THEN nullptr
                    ELSE CHOOSE i \in 1..Len(seq) :
                             seq[i] = n /\ \A j \in 1..(i - 1) : seq[j] # n
    IN  [node |-> [i \in NodeIds |->
                      IF i <= Len(seq)
                      THEN [val |-> node[seq[i]].val,
                            l |-> NewId(node[seq[i]].l),
                            r |-> NewId(node[seq[i]].r),
                            npl |-> node[seq[i]].npl]
                      ELSE Blank],
         live |-> 1..Len(seq),
         root |-> [q \in Queues |-> NewId(root[q])]]

\* The operation has returned to (or thrown into) its caller.
Return ==
    /\ pc = "done"
    /\ pc' = "idle"
    /\ op' = NoOp
    /\ call' = <<nullptr, nullptr>>
    /\ stack' = <<>>
    /\ ret' = nullptr
    /\ outcome' = "none"
    /\ threw' = "none"
    /\ result' = 0
    /\ ncmp' = 0
    /\ nwr' = 0
    /\ pre' = NoPre
    /\ LET m == Renamed
       IN  /\ node' = m.node
           /\ live' = m.live
           /\ root' = m.root
    /\ UNCHANGED <<exists, cnt>>

Next ==
    \/ \E q \in Queues : DefaultConstruct(q)
    \/ \E q \in Queues, e \in Values : Push(q, e)
    \/ \E q \in Queues, e \in Values : PushCopyThrows(q, e)
    \/ \E q \in Queues : Top(q)
    \/ \E q \in Queues : TopEmpty(q)
    \/ \E q \in Queues : Pop(q)
    \/ \E q \in Queues : PopEmpty(q)
    \/ \E q, o \in Queues : Merge(q, o)
    \/ \E q, o \in Queues : MergeNoop(q, o)
    \/ \E q, o \in Queues : CopyConstruct(q, o)
    \/ \E q, o \in Queues, k \in 0..MaxNodes : CopyConstructThrows(q, o, k)
    \/ \E q \in Queues : CopyAssignSelf(q)
    \/ \E q, o \in Queues : CopyAssign(q, o)
    \/ \E q, o \in Queues, k \in 0..MaxNodes : CopyAssignThrows(q, o, k)
    \/ \E q \in Queues : Destroy(q)
    \/ MeldReturnOperand
    \/ MeldCompare
    \/ MeldCompareThrows
    \/ MeldWrite
    \/ PushCommit
    \/ PushCatch
    \/ PopCommit
    \/ PopCatch
    \/ MergeCommit
    \/ MergeCatch
    \/ Return

Spec == Init /\ [][Next]_vars

(***************************************************************************)
(* Observations on a memory h (the current one, or the one saved in pre).  *)
(***************************************************************************)

\* The nodes reachable from x.
Subtree(h, x) == LET p == Preorder(h, x) IN {p[i] : i \in 1..Len(p)}

\* The tree at x: its nodes with all their fields (shape, values and ranks).
TreeOf(h, x) == [n \in Subtree(h, x) |-> h[n]]

\* Occurrences of the value v in the tree at x.
RECURSIVE Occ(_, _, _)
Occ(h, x, v) ==
    IF x = nullptr THEN 0
    ELSE (IF h[x].val = v THEN 1 ELSE 0) + Occ(h, h[x].l, v) + Occ(h, h[x].r, v)

\* The element multiset of the tree at x.
Elems(h, x) == [v \in 0..MaxVal |-> Occ(h, x, v)]

\* What top() would return on the tree at x (0 for the empty tree).
TopOf(h, x) == IF x = nullptr THEN 0 ELSE h[x].val

\* No public operation is running: before a call, or right after it left.
AtRest == pc \in {"idle", "done"}

\* The queues the running operation involves.
Involved == {op.q, op.other}

TypeOK ==
    /\ node \in [NodeIds -> [val : 0..MaxVal, l : 0..MaxNodes, r : 0..MaxNodes,
                             npl : 0..MaxNodes]]
    /\ live \subseteq NodeIds
    /\ exists \in [Queues -> BOOLEAN]
    /\ root \in [Queues -> 0..MaxNodes]
    /\ cnt \in [Queues -> 0..MaxNodes]
    /\ pc \in {"idle", "meld", "unwind", "catch", "done"}
    /\ outcome \in {"none", "ok", "runtime_error", "container_is_empty",
                    "value_exception"}
    /\ threw \in {"none", "comp", "copy"}
    /\ ncmp \in 0..MaxNodes
    /\ nwr \in 0..MaxNodes

(***************************************************************************)
(* C1  Rollback on comparator failure: when push, pop or merge leaves      *)
(* after the comparator threw, every queue involved has the root node, the *)
(* tree (shape, values, ranks), the element multiset, the size() and the   *)
(* top() it had when the operation was called.                             *)
(***************************************************************************)
C1_Rollback ==
    (pc = "done" /\ threw = "comp") =>
        \A q \in Involved :
            /\ root[q] = pre.root[q]
            /\ TreeOf(node, root[q]) = TreeOf(pre.node, pre.root[q])
            /\ Elems(node, root[q]) = Elems(pre.node, pre.root[q])
            /\ size(q) = pre.cnt[q]
            /\ TopOf(node, root[q]) = TopOf(pre.node, pre.root[q])

\* A merge of two non-empty queues left after its second comparison threw.
C1_Witness ==
    /\ pc = "done" /\ threw = "comp" /\ op.name = "merge" /\ ncmp = 2
    /\ cnt[op.q] >= 2 /\ cnt[op.other] >= 1

(***************************************************************************)
(* C2  Heap order: between operations (failed ones included) no node of    *)
(* any queue has a child c with comp(node.val, c.val).                     *)
(***************************************************************************)
HeapOrdered(h, x) ==
    \A n \in Subtree(h, x) :
        \A c \in {h[n].l, h[n].r} \ {nullptr} : ~comp(h[n].val, h[c].val)

C2_HeapOrder == AtRest => \A q \in Queues : HeapOrdered(node, root[q])

\* A queue of three elements, the root strictly above a child, after an
\* operation on it failed.
C2_Witness ==
    /\ pc = "done" /\ threw = "comp"
    /\ \E q \in Queues :
          /\ cnt[q] >= 3
          /\ \E c \in {node[root[q]].l, node[root[q]].r} \ {nullptr} :
                 comp(node[c].val, node[root[q]].val)

(***************************************************************************)
(* C3  Leftist and rank invariant: between operations every node has       *)
(* npl(left) >= npl(right) and npl(node) = npl(right) + 1, with npl 0 for  *)
(* an absent child.                                                        *)
(***************************************************************************)
Leftist(h, x) ==
    \A n \in Subtree(h, x) :
        /\ get_npl(h, h[n].l) >= get_npl(h, h[n].r)
        /\ h[n].npl = get_npl(h, h[n].r) + 1

C3_Leftist == AtRest => \A q \in Queues : Leftist(node, root[q])

\* A successful operation whose meld wrote two frames and left a root of
\* rank 2 (both children present).
C3_Witness ==
    /\ pc = "done" /\ outcome = "ok" /\ nwr >= 2
    /\ node[root[op.q]].npl = 2

(***************************************************************************)
(* C4  Count correctness: after every public operation cnt equals the      *)
(* number of nodes reachable from root, and cnt = 0 exactly when root is   *)
(* absent.                                                                 *)
(***************************************************************************)
C4_Count ==
    AtRest =>
        \A q \in Queues :
            /\ cnt[q] = Cardinality(Subtree(node, root[q]))
            /\ cnt[q] = TreeSize(node, root[q])
            /\ (cnt[q] = 0) <=> (root[q] = nullptr)

\* A merge has moved the elements of one queue into the other.
C4_Witness ==
    /\ pc = "done" /\ op.name = "merge" /\ outcome = "ok"
    /\ cnt[op.q] >= 3 /\ pre.cnt[op.other] >= 1 /\ pre.cnt[op.q] >= 1

(***************************************************************************)
(* C5  Top correctness: top() on a non-empty queue returns an element x    *)
(* of the queue with comp(x, y) false for every stored element y.          *)
(***************************************************************************)
C5_Top ==
    (pc = "done" /\ op.name = "top" /\ pre.cnt[op.q] # 0) =>
        /\ outcome = "ok"
        /\ \E n \in Subtree(node, root[op.q]) : node[n].val = result
        /\ \A n \in Subtree(node, root[op.q]) : ~comp(result, node[n].val)

\* top() on a queue of three elements that are not all equivalent.
C5_Witness ==
    /\ pc = "done" /\ op.name = "top" /\ cnt[op.q] >= 3
    /\ \E n \in Subtree(node, root[op.q]) : comp(node[n].val, result)

(***************************************************************************)
(* C6  Merge correctness: after a.merge(b) returned, a # b, a holds the    *)
(* multiset union of what a and b held, a.size() is the sum of the two     *)
(* sizes and b is empty (root absent, size 0); also when a was empty.      *)
(***************************************************************************)
BagSum(f, g) == [v \in 0..MaxVal |-> f[v] + g[v]]

C6_Merge ==
    (pc = "done" /\ op.name = "merge" /\ outcome = "ok" /\ op.q # op.other) =>
        /\ Elems(node, root[op.q]) =
               BagSum(Elems(pre.node, pre.root[op.q]),
                      Elems(pre.node, pre.root[op.other]))
        /\ size(op.q) = pre.cnt[op.q] + pre.cnt[op.other]
        /\ root[op.other] = nullptr
        /\ size(op.other) = 0

\* Two queues of two elements each have been merged.
C6_Witness ==
    /\ pc = "done" /\ op.name = "merge" /\ outcome = "ok"
    /\ pre.cnt[op.q] = 2 /\ pre.cnt[op.other] = 2 /\ cnt[op.q] = 4

(***************************************************************************)
(* C7  A successful push(e) adds one occurrence of e and one to size(); a  *)
(* successful pop() removes one occurrence of the former top() and one     *)
(* from size(), and the new top() is not above the removed one (so popping *)
(* until empty yields a non-increasing sequence).                          *)
(***************************************************************************)
Unit(e) == [v \in 0..MaxVal |-> IF v = e THEN 1 ELSE 0]

C7_PushPop ==
    /\ (pc = "done" /\ op.name = "push" /\ outcome = "ok") =>
           /\ Elems(node, root[op.q]) =
                  BagSum(Elems(pre.node, pre.root[op.q]), Unit(op.e))
           /\ size(op.q) = pre.cnt[op.q] + 1
    /\ (pc = "done" /\ op.name = "pop" /\ outcome = "ok") =>
           /\ BagSum(Elems(node, root[op.q]),
                     Unit(TopOf(pre.node, pre.root[op.q]))) =
                  Elems(pre.node, pre.root[op.q])
           /\ size(op.q) = pre.cnt[op.q] - 1
           /\ root[op.q] # nullptr =>
                  ~comp(TopOf(pre.node, pre.root[op.q]), TopOf(node, root[op.q]))

\* A pop of a queue of three elements whose two children had to be melded.
C7_Witness ==
    /\ pc = "done" /\ op.name = "pop" /\ outcome = "ok"
    /\ pre.cnt[op.q] >= 3 /\ ncmp >= 1

(***************************************************************************)
(* C8  top() and pop() on a queue without elements throw                   *)
(* container_is_empty and change nothing: root stays absent, size() stays  *)
(* 0, the comparator is not invoked.                                       *)
(***************************************************************************)
C8_Empty ==
    (pc = "done" /\ op.name \in {"top", "pop"} /\ pre.cnt[op.q] = 0) =>
        /\ outcome = "container_is_empty"
        /\ root[op.q] = nullptr /\ size(op.q) = 0
        /\ root = pre.root /\ cnt = pre.cnt /\ node = pre.node /\ live = pre.live
        /\ ncmp = 0

\* pop() has thrown on an empty queue while the other queue holds elements.
C8_Witness ==
    /\ pc = "done" /\ op.name = "pop" /\ outcome = "container_is_empty"
    /\ \E o \in Queues : cnt[o] >= 1

(***************************************************************************)
(* C9  (as claimed) A throwing copy of the value in push(e) reaches the    *)
(* caller as runtime_error, with root and cnt as before the call.          *)
(***************************************************************************)
C9_CopyFailureConverted ==
    (pc = "done" /\ op.name = "push" /\ threw = "copy") =>
        /\ outcome = "runtime_error"
        /\ root = pre.root /\ cnt = pre.cnt

(***************************************************************************)
(* C10  Whenever the comparator throws during push, pop or merge, the      *)
(* operation leaves with runtime_error: not with the comparator's          *)
(* exception, not with container_is_empty, not normally.                   *)
(***************************************************************************)
C10_OperationFailed ==
    /\ (pc = "done" /\ threw = "comp") =>
           (outcome = "runtime_error" /\ op.name \in {"push", "pop", "merge"})
    /\ pc = "catch" => (threw = "comp" /\ op.name \in {"push", "pop", "merge"})

\* A pop left after the comparator threw.
C10_Witness == pc = "done" /\ threw = "comp" /\ op.name = "pop"

(***************************************************************************)
(* C11  merge is a no-op in two cases: a.merge(a), and a.merge(b) with b   *)
(* empty.  Every queue keeps its root, tree and size, no node is           *)
(* allocated or freed, the comparator is not invoked and merge returns.    *)
(***************************************************************************)
C11_MergeNoop ==
    (pc = "done" /\ op.name = "merge"
        /\ (op.q = op.other \/ pre.cnt[op.other] = 0)) =>
        /\ outcome = "ok"
        /\ threw = "none"
        /\ ncmp = 0
        /\ nwr = 0
        /\ node = pre.node /\ live = pre.live
        /\ root = pre.root /\ cnt = pre.cnt

\* a.merge(a) has returned on a queue of at least two elements.
C11_Witness ==
    /\ pc = "done" /\ op.name = "merge" /\ op.q = op.other
    /\ cnt[op.q] >= 2

(***************************************************************************)
(* C12  Copy independence: after b is copy-constructed or copy-assigned    *)
(* from a, b has the elements, size, tree shape and ranks of a and shares  *)
(* no node with it, and a is as it was; two queues never share a node, and *)
(* an operation leaves every queue it does not involve as it was (root,    *)
(* tree, size() and top()).                                                *)
(***************************************************************************)

\* The tree at x without its addresses: value, rank, left and right shape.
RECURSIVE Shape(_, _)
Shape(h, x) ==
    IF x = nullptr THEN <<>>
    ELSE <<h[x].val, h[x].npl, Shape(h, h[x].l), Shape(h, h[x].r)>>

C13_AssignCommitsLast ==
    /\ (pc = "done" /\ op.name = "copy_assign" /\ threw = "copy") =>
           /\ outcome = "value_exception"
           /\ root = pre.root /\ cnt = pre.cnt
           /\ pre.live \subseteq live
           /\ \A n \in pre.live : node[n] = pre.node[n]
           /\ \A q \in Involved :
                  /\ TreeOf(node, root[q]) = TreeOf(pre.node, pre.root[q])
                  /\ Elems(node, root[q]) = Elems(pre.node, pre.root[q])
    /\ (pc = "done" /\ op.name = "copy_assign" /\ outcome = "ok"
           /\ op.q # op.other) =>
           pre.live \ live = Subtree(pre.node, pre.root[op.q])

\* clone threw after it had built a node, in an assignment to a queue that
\* held elements.
C13_Witness ==
    /\ pc = "done" /\ op.name = "copy_assign" /\ threw = "copy"
    /\ pre.cnt[op.q] >= 1 /\ pre.cnt[op.other] >= 2
    /\ live # pre.live

(***************************************************************************)
(* C14  Compare before write: in one top-level meld every comparator       *)
(* invocation precedes the first write of a node field.  So wherever the   *)
(* comparator is invoked or has just thrown (the descent of meld, and the  *)
(* handler it throws into), no frame has written yet, every node that      *)
(* existed at the call has the fields it had, root and cnt of every queue  *)
(* are as at the call, and heap order, leftist property, ranks and counts  *)
(* hold of them.                                                           *)
(***************************************************************************)
C14_CompareBeforeWrite ==
    pc \in {"meld", "catch"} =>
        /\ nwr = 0
        /\ root = pre.root /\ cnt = pre.cnt
        /\ \A n \in pre.live : n \in live /\ node[n] = pre.node[n]
        /\ \A q \in Queues :
               /\ HeapOrdered(node, root[q])
               /\ Leftist(node, root[q])
               /\ cnt[q] = TreeSize(node, root[q])

\* The comparator threw at its second invocation in a push; the handler has
\* not run yet.
C14_Witness == pc = "catch" /\ ncmp = 2 /\ op.name = "push"

(***************************************************************************)
(* The program when every clone succeeds: all steps of Next but the two    *)
(* in which new Node(x->val) throws inside clone.                          *)
(***************************************************************************)
NextCopiesSucceed ==
    \/ \E q \in Queues : DefaultConstruct(q)
    \/ \E q \in Queues, e \in Values : Push(q, e)
    \/ \E q \in Queues, e \in Values : PushCopyThrows(q, e)
    \/ \E q \in Queues : Top(q)
    \/ \E q \in Queues : TopEmpty(q)
    \/ \E q \in Queues : Pop(q)
    \/ \E q \in Queues : PopEmpty(q)
    \/ \E q, o \in Queues : Merge(q, o)
    \/ \E q, o \in Queues : MergeNoop(q, o)
    \/ \E q, o \in Queues : CopyConstruct(q, o)
    \/ \E q \in Queues : CopyAssignSelf(q)
    \/ \E q, o \in Queues : CopyAssign(q, o)
    \/ \E q \in Queues : Destroy(q)
    \/ MeldReturnOperand
    \/ MeldCompare
    \/ MeldCompareThrows
    \/ MeldWrite
    \/ PushCommit
    \/ PushCatch
    \/ PopCommit
    \/ PopCatch
    \/ MergeCommit
    \/ MergeCatch
    \/ Return

SpecCopiesSucceed == Init /\ [][NextCopiesSucceed]_vars

(***************************************************************************)
(* C15  Exclusive ownership without leaks (no clone has failed): between   *)
(* operations every allocated node is reachable from exactly one root      *)
(* along exactly one path and no freed node is reachable.  The node of a   *)
(* push that failed in the comparator is freed, a successful pop frees     *)
(* its old root and nothing else, and after a successful a.merge(b) no     *)
(* node is reachable from b and none was freed.                            *)
(***************************************************************************)
C15_Ownership ==
    /\ AtRest =>
           /\ live = UNION {Subtree(node, root[q]) : q \in Queues}
           /\ \A q \in Queues :
                  TreeSize(node, root[q]) = Cardinality(Subtree(node, root[q]))
           /\ \A q1, q2 \in Queues :
                  q1 # q2 =>
                      Subtree(node, root[q1]) \cap Subtree(node, root[q2]) = {}
    /\ (pc = "done" /\ op.name = "push" /\ threw = "comp") =>
           (op.n \notin live /\ live = pre.live)
    /\ (pc = "done" /\ op.name = "pop" /\ outcome = "ok") =>
           (pre.root[op.q] \in pre.live /\ live = pre.live \ {pre.root[op.q]})
    /\ (pc = "done" /\ op.name = "merge" /\ outcome = "ok" /\ op.q # op.other) =>
           (Subtree(node, root[op.other]) = {} /\ live = pre.live)

\* A push into a queue of two or more elements failed in the comparator
\* while the other queue held elements too.
C15_Witness ==
    /\ pc = "done" /\ op.name = "push" /\ threw = "comp"
    /\ cnt[op.q] >= 2
    /\ \E o \in Queues \ {op.q} : cnt[o] >= 1

(***************************************************************************)
(* C17  Tie-break: for non-empty a and b, meld(a, b) returns the root of b *)
(* exactly when comp(a->val, b->val), and the root of a otherwise.  So a   *)
(* successful push of a value equivalent to the top keeps the root node,   *)
(* and a.merge(b) with equivalent tops keeps the root node of a.           *)
(***************************************************************************)

\* The operands <<a, b>> of the top-level meld of the running operation.
MeldOperands ==
    CASE op.name = "push" -> <<pre.root[op.q], op.n>>
      [] op.name = "pop" -> <<pre.node[pre.root[op.q]].l,
                              pre.node[pre.root[op.q]].r>>
      [] op.name = "merge" -> <<pre.root[op.q], pre.root[op.other]>>

\* The values the operands of the top-level meld held at the call (the pushed
\* value for the node push allocated).
OperandVal(x) == IF op.name = "push" /\ x = op.n THEN op.e ELSE pre.node[x].val

C17_TieBreak ==
    (pc = "done" /\ outcome = "ok" /\ op.name \in {"push", "pop", "merge"}
        /\ ~(op.name = "merge" /\ (op.q = op.other \/ pre.cnt[op.other] = 0))) =>
        LET a == MeldOperands[1]
            b == MeldOperands[2]
        IN  (a # nullptr /\ b # nullptr) =>
                root[op.q] = IF comp(OperandVal(a), OperandVal(b)) THEN b ELSE a

\* A push of a value equivalent to the top of a non-empty queue returned.
C17_Witness ==
    /\ pc = "done" /\ op.name = "push" /\ outcome = "ok"
    /\ pre.cnt[op.q] >= 1
    /\ op.e = TopOf(pre.node, pre.root[op.q])
    /\ root[op.q] = pre.root[op.q]

(***************************************************************************)
(* C18  Every meld terminates, descending only along right links, after at *)
(* most npl(a) + npl(b) - 1 comparator invocations for non-empty a and b   *)
(* (none if one is absent); a subtree whose root has npl k holds at least  *)
(* 2^k - 1 nodes; so a push, pop or merge on queues with n elements in     *)
(* total invokes the comparator at most 2 * floor(log2(n + 1)) times.      *)
(* Termination is stated by its variant: while meld descends, the          *)
(* comparisons made plus the lengths of the right spines of the two        *)
(* current operands equal the lengths of the right spines of the operands  *)
(* of the top-level call, and every comparison leaves one waiting frame.   *)
(***************************************************************************)

\* Number of nodes on the path from x along r links.
RECURSIVE RightSpine(_, _)
RightSpine(h, x) == IF x = nullptr THEN 0 ELSE 1 + RightSpine(h, h[x].r)

RECURSIVE Pow2(_)
Pow2(k) == IF k = 0 THEN 1 ELSE 2 * Pow2(k - 1)

\* floor(log2(n)) for n >= 1.
RECURSIVE Log2Floor(_)
Log2Floor(n) == IF n <= 1 THEN 0 ELSE 1 + Log2Floor(n \div 2)

\* npl of an operand of the top-level meld, as it was at the call.
OperandNpl(x) ==
    IF op.name = "push" /\ x = op.n THEN 1 ELSE get_npl(pre.node, x)

\* The operation has entered meld.
Melding ==
    /\ pc \in {"meld", "unwind", "catch", "done"}
    /\ op.name \in {"push", "pop", "merge"}
    /\ ~(op.name = "push" /\ threw = "copy")
    /\ ~(op.name = "pop" /\ pre.cnt[op.q] = 0)
    /\ ~(op.name = "merge" /\ (op.q = op.other \/ pre.cnt[op.other] = 0))

\* Elements held at the call by the queues the operation involves.
TotalBefore == IF op.q = op.other THEN pre.cnt[op.q]
               ELSE pre.cnt[op.q] + pre.cnt[op.other]

C18_MeldCost ==
    /\ pc = "meld" =>
           /\ ncmp + RightSpine(node, call[1]) + RightSpine(node, call[2]) =
                  RightSpine(node, MeldOperands[1])
                      + RightSpine(node, MeldOperands[2])
           /\ Len(stack) = ncmp
    /\ pc = "unwind" => Len(stack) + nwr = ncmp
    /\ Melding =>
           LET a == MeldOperands[1]
               b == MeldOperands[2]
           IN  /\ (a = nullptr \/ b = nullptr) => ncmp = 0
               /\ (a # nullptr /\ b # nullptr) =>
                      ncmp <= OperandNpl(a) + OperandNpl(b) - 1
               /\ ncmp <= 2 * Log2Floor(TotalBefore + 1)
    /\ AtRest =>
           \A q \in Queues :
               \A n \in Subtree(node, root[q]) :
                   /\ TreeSize(node, n) >= Pow2(node[n].npl) - 1
                   /\ RightSpine(node, n) = node[n].npl

\* A push into a queue whose root has npl 2 made two comparisons, the most
\* its operands (npl 2 and npl 1) allow.
C18_Witness ==
    /\ pc = "done" /\ op.name = "push" /\ outcome = "ok"
    /\ ncmp = 2 /\ OperandNpl(MeldOperands[1]) = 2

(***************************************************************************)
(* C19  Operations the comparator cannot fail: a push onto an empty queue, *)
(* a merge into an empty queue and a pop on a queue of one or two elements *)
(* never invoke the comparator (meld returns the operand that is present), *)
(* never leave with runtime_error, and return normally (a push unless the  *)
(* copy of its value threw).  The root of a queue of two elements has no   *)
(* right child.                                                            *)
(***************************************************************************)
C19_NeverFails ==
    /\ (/\ pc \in {"meld", "unwind", "catch", "done"}
        /\ \/ op.name = "push" /\ pre.cnt[op.q] = 0
           \/ op.name = "merge" /\ pre.cnt[op.q] = 0
           \/ op.name = "pop" /\ pre.cnt[op.q] \in {1, 2}) =>
           /\ ncmp = 0
           /\ pc # "catch"
           /\ threw # "comp"
           /\ pc = "done" =>
                  /\ outcome # "runtime_error"
                  /\ threw = "none" => outcome = "ok"
    /\ AtRest =>
           \A q \in Queues : cnt[q] = 2 => node[root[q]].r = nullptr

\* A pop on a queue of two elements returned.
C19_Witness ==
    /\ pc = "done" /\ op.name = "pop" /\ outcome = "ok"
    /\ pre.cnt[op.q] = 2

(***************************************************************************)
(* A caller of one queue that pushes keys not below the current top (for   *)
(* instance increasing keys) and pops, over a pool of MaxChain nodes and   *)
(* the keys 1..MaxChain.                                                   *)
(***************************************************************************)

\* Nodes of the pool, and keys, of the specification SpecAscending.
MaxChain == 7

InitAscending ==
    /\ node = [n \in 1..MaxChain |-> Blank]
    /\ live = {}
    /\ exists = [q \in Queues |-> q = "a"]
    /\ root = [q \in Queues |-> nullptr]
    /\ cnt = [q \in Queues |-> 0]
    /\ pc = "idle"
    /\ op = NoOp
    /\ call = <<nullptr, nullptr>>
    /\ stack = <<>>
    /\ ret = nullptr
    /\ outcome = "none"
    /\ threw = "none"
    /\ result = 0
    /\ ncmp = 0
    /\ nwr = 0
    /\ pre = NoPre

\* push(e) with e not below top().
PushAscending(e) ==
    /\ IF root["a"] = nullptr THEN TRUE ELSE ~comp(e, node[root["a"]].val)
    /\ Push("a", e)

NextAscending ==
    \/ \E e \in 1..MaxChain : PushAscending(e)
    \/ Pop("a")
    \/ MeldReturnOperand
    \/ MeldCompare
    \/ MeldCompareThrows
    \/ MeldWrite
    \/ PushCommit
    \/ PushCatch
    \/ PopCommit
    \/ PopCatch
    \/ Return

SpecAscending == InitAscending /\ [][NextAscending]_vars

\* Number of nodes on the longest path from x to a leaf.
RECURSIVE Depth(_, _)
Depth(h, x) ==
    IF x = nullptr THEN 0
    ELSE LET dl == Depth(h, h[x].l)
             dr == Depth(h, h[x].r)
         IN  1 + (IF dl >= dr THEN dl ELSE dr)

\* ceil(log2(n)) for n >= 1.
Log2Ceil(n) == IF n <= 1 THEN 0 ELSE 1 + Log2Floor(n - 1)

====
